---------------------------- MODULE Spec2Model ----------------------------
(***************************************************************************)
(* Model of the two command-line utilities of the repository:              *)
(*   src/Task_three.py  the log-file analyser                              *)
(*   src/Task_four.py   the contact-book assistant bot                     *)
(* Strings the programs inspect character by character (log lines, level   *)
(* arguments, user input) are sequences of one-character strings; fixed    *)
(* texts the programs only print are TLA+ strings.                         *)
(***************************************************************************)
EXTENDS Integers, Sequences, FiniteSets, TLC

VARIABLES
    given,       \* parser run: how the input line was put together
    line,        \* parser run: the raw line handed to parse_log_line
    result,      \* parser run: what parse_log_line returned or raised
    argv,        \* log tool: the command line
    fs,          \* log tool: what the file system holds under the path
    file,        \* log tool: the lines of the file, each with its "\n"
    pc,          \* log tool: position of main / load_logs
    file_open,   \* log tool: whether the file handle is open
    line_no,     \* log tool: enumerate()'s counter in load_logs
    logs,        \* log tool: the records loaded so far / returned
    counts,      \* log tool: result of count_logs_by_level
    filtered,    \* log tool: result of filter_logs_by_level
    out,         \* log tool: everything printed, in order, with its channel
    exit_code,   \* log tool: value returned by main
    contacts,    \* bot: the dict, as (name, phone) pairs in insertion order
    user_input,  \* bot: the line last returned by input()
    typed,       \* bot: how that line was put together
    reply,       \* bot: what the last command printed
    before,      \* bot: the contacts as they were when the last line was read
    last_set,    \* bot: per name, the phone of the last "added"/"updated" reply
    bot_pc       \* bot: position of the bot's main loop

parseVars == <<given, line, result>>
logVars == <<argv, fs, file, pc, file_open, line_no, logs, counts, filtered, out, exit_code>>
botVars == <<contacts, user_input, typed, reply, before, last_set, bot_pc>>
vars == <<parseVars, logVars, botVars>>

None == "None"

-----------------------------------------------------------------------------
(* Characters and the str methods the programs call.                       *)

Whitespace == {" ", "\t", "\n", "\r"}

Lowers == <<"a","b","c","d","e","f","g","h","i","j","k","l","m",
            "n","o","p","q","r","s","t","u","v","w","x","y","z">>
Uppers == <<"A","B","C","D","E","F","G","H","I","J","K","L","M",
            "N","O","P","Q","R","S","T","U","V","W","X","Y","Z">>

UpperChar(c) ==
    IF \E i \in 1..Len(Lowers) : Lowers[i] = c
    THEN Uppers[CHOOSE i \in 1..Len(Lowers) : Lowers[i] = c]
    ELSE c

LowerChar(c) ==
    IF \E i \in 1..Len(Uppers) : Uppers[i] = c
    THEN Lowers[CHOOSE i \in 1..Len(Uppers) : Uppers[i] = c]
    ELSE c

\* str.upper()
Upper(s) == [i \in 1..Len(s) |-> UpperChar(s[i])]

\* str.lower()
Lower(s) == [i \in 1..Len(s) |-> LowerChar(s[i])]

RECURSIVE SkipSpace(_, _)
SkipSpace(s, i) ==
    IF i <= Len(s) /\ s[i] \in Whitespace THEN SkipSpace(s, i + 1) ELSE i

RECURSIVE SkipWord(_, _)
SkipWord(s, i) ==
    IF i <= Len(s) /\ s[i] \notin Whitespace THEN SkipWord(s, i + 1) ELSE i

RECURSIVE LastNonSpace(_, _)
LastNonSpace(s, i) ==
    IF i >= 1 /\ s[i] \in Whitespace THEN LastNonSpace(s, i - 1) ELSE i

\* str.strip()
Strip(s) == SubSeq(s, SkipSpace(s, 1), LastNonSpace(s, Len(s)))

\* str.split(maxsplit=maxcount) on whitespace, from index i on: at most
\* maxcount words are cut off; what is left, without its leading
\* whitespace, is the last part.
RECURSIVE SplitFrom(_, _, _, _)
SplitFrom(s, i, maxcount, acc) ==
    LET j == SkipSpace(s, i) IN
    IF j > Len(s) THEN acc
    ELSE IF maxcount = 0 THEN Append(acc, SubSeq(s, j, Len(s)))
    ELSE LET k == SkipWord(s, j)
         IN  SplitFrom(s, k, maxcount - 1, Append(acc, SubSeq(s, j, k - 1)))

SplitMax(s, maxsplit) == SplitFrom(s, 1, maxsplit, <<>>)

\* str.split(): no limit on the number of words
Split(s) == SplitFrom(s, 1, Len(s), <<>>)

Range(s) == {s[i] : i \in 1..Len(s)}

SeqsUpTo(S, n) == UNION {[1..k -> S] : k \in 0..n}

RECURSIVE Join(_, _)
Join(ws, sep) ==
    IF ws = <<>> THEN <<>>
    ELSE IF Len(ws) = 1 THEN ws[1]
    ELSE ws[1] \o sep \o Join(Tail(ws), sep)

-----------------------------------------------------------------------------
(* Task_three.py: the log-file analyser.                                   *)

INFO == <<"I","N","F","O">>
ERROR == <<"E","R","R","O","R">>
DEBUG == <<"D","E","B","U","G">>
WARNING == <<"W","A","R","N","I","N","G">>

LOG_LEVELS == <<INFO, ERROR, DEBUG, WARNING>>

LevelSet == Range(LOG_LEVELS)

Ok(v) == [tag |-> "ok", value |-> v]
Raise(type, msg, arg) == [tag |-> "raise", value |-> [type |-> type, msg |-> msg, arg |-> arg]]

LogRecord(d, t, l, m) == [date |-> d, time |-> t, level |-> l, message |-> m]

\* variant: split() without maxsplit, the message is the fourth word only
parse_log_line_NoMaxsplit(ln) ==
    LET parts == Split(Strip(ln)) IN
    IF Len(parts) < 4
    THEN Raise("ValueError", "Invalid log line format", <<ln>>)
    ELSE IF parts[3] \notin LevelSet
    THEN Raise("ValueError", "Unknown log level", <<parts[3], ln>>)
    ELSE Ok(LogRecord(parts[1], parts[2], parts[3], parts[4]))

\* variant: the level token is compared case-insensitively
parse_log_line_AnyCaseLevel(ln) ==
    LET parts == SplitMax(Strip(ln), 3) IN
    IF Len(parts) < 4
    THEN Raise("ValueError", "Invalid log line format", <<ln>>)
    ELSE IF Upper(parts[3]) \notin LevelSet
    THEN Raise("ValueError", "Unknown log level", <<parts[3], ln>>)
    ELSE Ok(LogRecord(parts[1], parts[2], Upper(parts[3]), parts[4]))

parse_log_line(ln) ==
    LET parts == SplitMax(Strip(ln), 3) IN
    IF Len(parts) < 4
    THEN Raise("ValueError", "Invalid log line format", <<ln>>)
    ELSE IF parts[3] \notin LevelSet
    THEN Raise("ValueError", "Unknown log level", <<parts[3], ln>>)
    ELSE Ok(LogRecord(parts[1], parts[2], parts[3], parts[4]))


\* load_logs (one step per line of the file) ------------------------------

\* variant: blank lines are handed to the parser like any other line
LoadStep_NoBlankSkip(ln, n, acc, printed) ==
    LET r == parse_log_line(ln) IN
    IF r.tag = "ok"
    THEN [logs |-> Append(acc, r.value), out |-> printed]
    ELSE [logs |-> acc,
          out |-> Append(printed, [ch |-> "stderr", kind |-> "warning",
                                   data |-> [line_no |-> n, exc |-> r.value]])]

\* the for-loop body of load_logs for line number n: blank lines are
\* skipped, parsed records are appended, a ValueError becomes a warning
LoadStep(ln, n, acc, printed) ==
    IF Strip(ln) = <<>>
    THEN [logs |-> acc, out |-> printed]
    ELSE LET r == parse_log_line(ln) IN
         IF r.tag = "ok"
         THEN [logs |-> Append(acc, r.value), out |-> printed]
         ELSE [logs |-> acc,
               out |-> Append(printed, [ch |-> "stderr", kind |-> "warning",
                                        data |-> [line_no |-> n, exc |-> r.value]])]

\* variant: a missing file is read as an empty one
OpenOutcome_MissingIsEmpty(kind) ==
    CASE kind = "denied"  -> Raise("OSError", "Error reading file", <<argv[2]>>)
      [] OTHER            -> Ok(TRUE)

\* what open() / reading does, by what the file system holds
OpenOutcome(kind) ==
    CASE kind = "missing" -> Raise("FileNotFoundError", "File not found", <<argv[2]>>)
      [] kind = "denied"  -> Raise("OSError", "Error reading file", <<argv[2]>>)
      [] OTHER            -> Ok(TRUE)

ReadEndOutcome(kind) ==
    CASE kind = "ioerror"     -> Raise("OSError", "Error reading file", <<argv[2]>>)
      [] kind = "undecodable" -> Raise("UnicodeDecodeError", "codec can't decode", <<>>)
      [] OTHER                -> Ok(TRUE)

\* variant: the level argument is compared as given
filter_logs_by_level_CaseSensitive(records, level) ==
    IF level \notin LevelSet
    THEN Raise("ValueError", "Unsupported level", <<level>>)
    ELSE Ok(SelectSeq(records, LAMBDA rec : rec.level = level))

\* filter_logs_by_level
filter_logs_by_level(records, level) ==
    LET level_upper == Upper(level) IN
    IF level_upper \notin LevelSet
    THEN Raise("ValueError", "Unsupported level", <<level>>)
    ELSE Ok(SelectSeq(records, LAMBDA rec : rec.level = level_upper))

\* variant: only the levels that occur get a key
count_logs_by_level_NoZeroFill(records) ==
    [lvl \in {records[i].level : i \in 1..Len(records)} |->
        Cardinality({i \in 1..Len(records) : records[i].level = lvl})]

\* count_logs_by_level
RECURSIVE CountLoop(_, _)
CountLoop(records, acc) ==
    IF records = <<>> THEN acc
    ELSE CountLoop(Tail(records),
                   [acc EXCEPT ![Head(records).level] = @ + 1])

count_logs_by_level(records) ==
    CountLoop(records, [lvl \in LevelSet |-> 0])

\* display_log_counts
HeaderLeftLen == 16
HeaderRightLen == 9

RECURSIVE NumDigits(_)
NumDigits(n) == IF n < 10 THEN 1 ELSE 1 + NumDigits(n \div 10)

Max(S) == CHOOSE x \in S : \A y \in S : y <= x

CountOf(cnt, level) == IF level \in DOMAIN cnt THEN cnt[level] ELSE 0

display_log_counts(cnt) ==
    [ch |-> "stdout", kind |-> "counts",
     data |-> [left_width |-> Max({HeaderLeftLen} \cup {Len(l) : l \in LevelSet}),
               right_width |-> Max({HeaderRightLen}
                                   \cup {NumDigits(CountOf(cnt, l)) : l \in LevelSet}),
               rows |-> [i \in 1..Len(LOG_LEVELS) |->
                           [level |-> LOG_LEVELS[i],
                            count |-> CountOf(cnt, LOG_LEVELS[i])]]]]

\* display_log_details
display_log_details(records, level) ==
    [ch |-> "stdout", kind |-> "details",
     data |-> [level |-> Upper(level),
               no_records |-> (records = <<>>),
               lines |-> [i \in 1..Len(records) |->
                            [date |-> records[i].date, time |-> records[i].time,
                             message |-> records[i].message]]]]

\* main's except clause: the error goes to stderr and main returns 1
\* (UnicodeDecodeError is a ValueError, FileNotFoundError an OSError)
ExceptionBases(type) ==
    CASE type = "UnicodeDecodeError" -> {"UnicodeDecodeError", "ValueError"}
      [] type = "FileNotFoundError"  -> {"FileNotFoundError", "OSError"}
      [] OTHER                       -> {type}

CaughtByMain(exc) ==
    ExceptionBases(exc.type) \cap {"FileNotFoundError", "OSError", "ValueError"} # {}

ErrorLine(exc) == [ch |-> "stderr", kind |-> "error", data |-> exc]

UsageLine == [ch |-> "stderr", kind |-> "usage", data |-> <<>>]

-----------------------------------------------------------------------------
(* Inputs of the log tool.                                                 *)

Date1 == <<"2","0","2","4","-","0","1","-","0","1">>
Time1 == <<"1","0",":","0","0",":","0","0">>
Failed == <<"F","a","i","l","e","d">>
info_lc == <<"i","n","f","o">>
error_lc == <<"e","r","r","o","r">>
Warning_mixed == <<"W","a","r","n","i","n","g">>
CRITICAL == <<"C","R","I","T","I","C","A","L">>

\* bounds of the inputs
MaxMsgWords == 2
MaxLines == 4
MaxReadBeforeFailure == 1

\* tokens a line's first three fields are drawn from, and its message words
TokenPool == {Date1, Time1, INFO, ERROR, DEBUG, WARNING, info_lc, Failed}
WordPool == {Failed, INFO}
Seps == {<<" ">>, <<" ", "\t">>}
Pads == {[lead |-> <<>>, trail |-> <<>>],
         [lead |-> <<>>, trail |-> <<"\n">>],
         [lead |-> <<" ">>, trail |-> <<" ", "\r", "\n">>]}

\* the line written from its ingredients: the fields separated by sepH, the
\* words of the message (everything after the third token) by sepM
Render(g) ==
    LET head == SubSeq(g.toks, 1, IF Len(g.toks) < 3 THEN Len(g.toks) ELSE 3)
        msg == IF Len(g.toks) < 4 THEN <<>> ELSE SubSeq(g.toks, 4, Len(g.toks))
    IN  g.pad.lead \o Join(head, g.sepH)
        \o (IF msg = <<>> THEN <<>> ELSE g.sepH \o Join(msg, g.sepM))
        \o g.pad.trail

Givens ==
    {[toks |-> h \o m, sepH |-> sh, sepM |-> sm, pad |-> pd] :
        h \in SeqsUpTo(TokenPool, 3), m \in SeqsUpTo(WordPool, MaxMsgWords),
        sh \in Seps, sm \in Seps, pd \in Pads}

SP == <<" ">>
NL == <<"\n">>

\* lines a log file is made of
LinePool ==
    { <<" ">> \o NL,
      Join(<<Date1, Time1, INFO, Failed>>, SP) \o NL,
      Join(<<Date1, Time1, ERROR, Failed>>, SP) \o <<" ", " ">> \o INFO \o NL,
      Join(<<Failed, Failed>>, SP) \o NL,
      Join(<<Date1, Time1, info_lc, Failed>>, SP) \o NL,
      Join(<<Date1, Time1, WARNING, Failed>>, SP) \o NL }

LevelArgPool == {error_lc, ERROR, Warning_mixed, CRITICAL}

ArgvPool == {<<"main.py">>, <<"main.py", "logs.txt">>}
            \cup {<<"main.py", "logs.txt", lv>> : lv \in LevelArgPool}

\* what the path names: a readable text file, nothing, a file that may not
\* be opened, a file whose reading fails with an I/O error, a file whose
\* bytes are not UTF-8.  For the last two, `file` holds the lines the
\* iteration yields before it fails.
FileKinds == {"ok", "missing", "denied", "ioerror", "undecodable"}

-----------------------------------------------------------------------------
(* Initial states: each program starts idle; a specification runs one.     *)

\* a name not bound yet (a call not made yet)
NoResult == [tag |-> "none", value |-> <<>>]

ParseIdle == given = None /\ line = <<>> /\ result = NoResult

LogIdle ==
    /\ argv = <<>> /\ fs = "missing" /\ file = <<>> /\ pc = "idle"
    /\ file_open = FALSE /\ line_no = 0 /\ logs = <<>> /\ counts = NoResult
    /\ filtered = NoResult /\ out = <<>> /\ exit_code = None

BotIdle ==
    /\ contacts = <<>> /\ user_input = <<>> /\ typed = <<>> /\ reply = None
    /\ before = <<>> /\ last_set = <<>> /\ bot_pc = "idle"

-----------------------------------------------------------------------------
(* parse_log_line applied to one line.                                     *)

ParseInit ==
    /\ given \in Givens
    /\ line = Render(given)
    /\ result = NoResult
    /\ LogIdle /\ BotIdle

ParseLine ==
    /\ result.tag = "none"
    /\ result' = parse_log_line(line)
    /\ UNCHANGED <<given, line, logVars, botVars>>

SpecParse == ParseInit /\ [][ParseLine]_vars

-----------------------------------------------------------------------------
(* main of the log tool.                                                   *)

LogInit ==
    /\ argv \in ArgvPool
    /\ fs \in FileKinds
    /\ file \in SeqsUpTo(LinePool, MaxLines)
    /\ Len(argv) < 2 => fs = "missing"
    /\ fs \in {"missing", "denied"} => file = <<>>
    /\ fs \in {"ioerror", "undecodable"} => Len(file) <= MaxReadBeforeFailure
    /\ pc = "start"
    /\ file_open = FALSE /\ line_no = 0 /\ logs = <<>> /\ counts = NoResult
    /\ filtered = NoResult /\ out = <<>> /\ exit_code = None
    /\ ParseIdle /\ BotIdle

\* main's except clause
Fail(exc) ==
    /\ CaughtByMain(exc)
    /\ out' = Append(out, ErrorLine(exc))
    /\ exit_code' = 1
    /\ pc' = "done"

\* variant: the level argument is validated before the file is loaded
MainStart_ValidatesLevelFirst ==
    /\ pc = "start"
    /\ IF Len(argv) < 2
       THEN /\ out' = Append(out, UsageLine)
            /\ exit_code' = 1
            /\ pc' = "done"
       ELSE IF Len(argv) >= 3 /\ filter_logs_by_level(<<>>, argv[3]).tag = "raise"
       THEN Fail(filter_logs_by_level(<<>>, argv[3]).value)
       ELSE /\ pc' = "load"
            /\ UNCHANGED <<out, exit_code>>
    /\ UNCHANGED <<argv, fs, file, file_open, line_no, logs, counts, filtered>>
    /\ UNCHANGED <<parseVars, botVars>>

\* len(argv) < 2: usage and return 1; otherwise call load_logs
MainStart ==
    /\ pc = "start"
    /\ IF Len(argv) < 2
       THEN /\ out' = Append(out, UsageLine)
            /\ exit_code' = 1
            /\ pc' = "done"
       ELSE /\ pc' = "load"
            /\ UNCHANGED <<out, exit_code>>
    /\ UNCHANGED <<argv, fs, file, file_open, line_no, logs, counts, filtered>>
    /\ UNCHANGED <<parseVars, botVars>>

\* load_logs: open(file_path)
OpenFile ==
    /\ pc = "load"
    /\ LET r == OpenOutcome(fs) IN
       IF r.tag = "raise"
       THEN /\ Fail(r.value)
            /\ UNCHANGED file_open
       ELSE /\ file_open' = TRUE
            /\ pc' = "read"
            /\ UNCHANGED <<out, exit_code>>
    /\ UNCHANGED <<argv, fs, file, line_no, logs, counts, filtered>>
    /\ UNCHANGED <<parseVars, botVars>>

\* variant: a line that fails to parse ends the loop
ReadLine_BreaksOnError ==
    /\ pc = "read"
    /\ line_no < Len(file)
    /\ LET n == line_no + 1
           s == LoadStep(file[n], n, logs, out)
       IN  /\ line_no' = IF Len(s.out) > Len(out) THEN Len(file) ELSE n
           /\ logs' = s.logs
           /\ out' = s.out
    /\ UNCHANGED <<argv, fs, file, pc, file_open, counts, filtered, exit_code>>
    /\ UNCHANGED <<parseVars, botVars>>

\* load_logs: one iteration of the for loop
ReadLine ==
    /\ pc = "read"
    /\ line_no < Len(file)
    /\ LET n == line_no + 1
           s == LoadStep(file[n], n, logs, out)
       IN  /\ line_no' = n
           /\ logs' = s.logs
           /\ out' = s.out
    /\ UNCHANGED <<argv, fs, file, pc, file_open, counts, filtered, exit_code>>
    /\ UNCHANGED <<parseVars, botVars>>

\* load_logs: the iteration ends (or the read fails); the with block
\* closes the file either way
ReadEnd ==
    /\ pc = "read"
    /\ line_no = Len(file)
    /\ file_open' = FALSE
    /\ LET r == ReadEndOutcome(fs) IN
       IF r.tag = "raise"
       THEN /\ Fail(r.value)
            /\ logs' = <<>>
       ELSE /\ pc' = "count"
            /\ UNCHANGED <<logs, out, exit_code>>
    /\ UNCHANGED <<argv, fs, file, line_no, counts, filtered>>
    /\ UNCHANGED <<parseVars, botVars>>

Count ==
    /\ pc = "count"
    /\ counts' = Ok(count_logs_by_level(logs))
    /\ pc' = "display_counts"
    /\ UNCHANGED <<argv, fs, file, file_open, line_no, logs, filtered, out, exit_code>>
    /\ UNCHANGED <<parseVars, botVars>>

DisplayCounts ==
    /\ pc = "display_counts"
    /\ out' = Append(out, display_log_counts(counts.value))
    /\ IF Len(argv) >= 3
       THEN pc' = "filter" /\ UNCHANGED exit_code
       ELSE pc' = "done" /\ exit_code' = 0
    /\ UNCHANGED <<argv, fs, file, file_open, line_no, logs, counts, filtered>>
    /\ UNCHANGED <<parseVars, botVars>>

Filter ==
    /\ pc = "filter"
    /\ LET r == filter_logs_by_level(logs, argv[3]) IN
       IF r.tag = "raise"
       THEN /\ Fail(r.value)
            /\ UNCHANGED filtered
       ELSE /\ filtered' = r
            /\ pc' = "display_details"
            /\ UNCHANGED <<out, exit_code>>
    /\ UNCHANGED <<argv, fs, file, file_open, line_no, logs, counts>>
    /\ UNCHANGED <<parseVars, botVars>>

DisplayDetails ==
    /\ pc = "display_details"
    /\ out' = Append(out, display_log_details(filtered.value, argv[3]))
    /\ exit_code' = 0
    /\ pc' = "done"
    /\ UNCHANGED <<argv, fs, file, file_open, line_no, logs, counts, filtered>>
    /\ UNCHANGED <<parseVars, botVars>>

LogNext ==
    \/ MainStart \/ OpenFile \/ ReadLine \/ ReadEnd
    \/ Count \/ DisplayCounts \/ Filter \/ DisplayDetails

SpecLog == LogInit /\ [][LogNext]_vars

-----------------------------------------------------------------------------
(* Task_four.py: the contact-book assistant bot.                           *)

w_add == <<"a","d","d">>
w_Add == <<"A","d","d">>
w_change == <<"c","h","a","n","g","e">>
w_phone == <<"p","h","o","n","e">>
w_all == <<"a","l","l">>
w_hello == <<"h","e","l","l","o">>
w_exit == <<"e","x","i","t">>
w_EXIT == <<"E","X","I","T">>
w_close == <<"c","l","o","s","e">>
w_bye == <<"b","y","e">>
alice == <<"a","l","i","c","e">>
Alice == <<"A","l","i","c","e">>
n123 == <<"1","2","3">>
n999 == <<"9","9","9">>

\* what the bot prints: a fixed text, a phone, or the listing of all
Text(t) == [kind |-> "text", text |-> t, data |-> <<>>]
PhoneText(ph) == [kind |-> "phone", text |-> "", data |-> ph]
Listing(cts) == [kind |-> "listing", text |-> "", data |-> cts]

\* the dict of contacts, as (name, phone) pairs in insertion order
Has(cts, k) == \E i \in 1..Len(cts) : cts[i].name = k
Get(cts, k) == cts[CHOOSE i \in 1..Len(cts) : cts[i].name = k].phone
Put(cts, k, v) ==
    IF Has(cts, k)
    THEN [i \in 1..Len(cts) |-> IF cts[i].name = k THEN [name |-> k, phone |-> v]
                                                   ELSE cts[i]]
    ELSE Append(cts, [name |-> k, phone |-> v])

\* a handler's outcome: what it returned or raised, and the dict afterwards
Outcome(r, cts) == [result |-> r, contacts |-> cts]

\* str(exc): str() of a KeyError is the repr of its argument
ExcStr(exc) ==
    IF exc.type = "KeyError" /\ exc.msg = "Contact not found."
    THEN "'Contact not found.'"
    ELSE exc.msg

\* the input_error decorator around a handler's outcome
input_error(o) ==
    IF o.result.tag = "raise"
       /\ o.result.value.type \in {"ValueError", "KeyError", "IndexError"}
    THEN Outcome(Ok(Text(ExcStr(o.result.value))), o.contacts)
    ELSE o

parse_input(ui) ==
    LET parts == Split(Strip(ui)) IN
    IF parts = <<>> THEN [cmd |-> <<>>, args |-> <<>>]
    ELSE [cmd |-> Lower(parts[1]), args |-> Tail(parts)]

\* variant: an existing contact is kept as it is
add_contact_KeepsExisting(args, cts) ==
    input_error(
        IF Len(args) # 2
        THEN Outcome(Raise("ValueError", "Give me name and phone please.", <<>>), cts)
        ELSE Outcome(Ok(Text("Contact added.")),
                     IF Has(cts, args[1]) THEN cts ELSE Put(cts, args[1], args[2])))

add_contact(args, cts) ==
    input_error(
        IF Len(args) # 2
        THEN Outcome(Raise("ValueError", "Give me name and phone please.", <<>>), cts)
        ELSE Outcome(Ok(Text("Contact added.")), Put(cts, args[1], args[2])))

change_contact(args, cts) ==
    input_error(
        IF Len(args) # 2
        THEN Outcome(Raise("ValueError", "Give me name and phone please.", <<>>), cts)
        ELSE IF ~Has(cts, args[1])
        THEN Outcome(Raise("KeyError", "Contact not found.", <<>>), cts)
        ELSE Outcome(Ok(Text("Contact updated.")), Put(cts, args[1], args[2])))

show_phone(args, cts) ==
    input_error(
        IF Len(args) # 1
        THEN Outcome(Raise("ValueError", "Enter user name.", <<>>), cts)
        ELSE IF ~Has(cts, args[1])
        THEN Outcome(Raise("KeyError", "Contact not found.", <<>>), cts)
        ELSE Outcome(Ok(PhoneText(Get(cts, args[1]))), cts))

show_all(cts) ==
    input_error(
        IF cts = <<>>
        THEN Outcome(Ok(Text("No contacts saved.")), cts)
        ELSE Outcome(Ok(Listing(cts)), cts))

\* inputs of the bot
MaxArgs == 3

NamePool == {alice, Alice}
PhonePool == {n123, n999}
ArgCommands == {w_add, w_Add, w_change, w_phone}

\* argument lists: a name first, phones after it
ArgLists ==
    {a \in SeqsUpTo(NamePool \cup PhonePool, MaxArgs) :
        a = <<>> \/ (a[1] \in NamePool /\ \A i \in 2..Len(a) : a[i] \in PhonePool)}

Typeds ==
    {<<c>> \o a : c \in ArgCommands, a \in ArgLists}
    \cup {<<c>> : c \in {w_all, w_hello, w_exit, w_close, w_bye}}
    \cup {<<>>, <<w_EXIT, alice>>, <<w_all, alice>>}

\* the line as typed: words whose command has a capital letter are typed
\* with blanks around the line and tabs and blanks between the words
RenderInput(toks) ==
    IF toks # <<>> /\ Lower(toks[1]) # toks[1]
    THEN <<" ">> \o Join(toks, <<"\t", " ">>) \o <<" ">>
    ELSE Join(toks, <<" ">>)

Welcome == Text("Welcome to the assistant bot!")

BotInit ==
    /\ contacts = <<>>
    /\ user_input = <<>>
    /\ typed = <<>>
    /\ reply = Welcome
    /\ before = <<>>
    /\ last_set = [n \in NamePool |-> <<>>]
    /\ bot_pc = "prompt"
    /\ ParseIdle /\ LogIdle

\* the body of main's loop after input() returned ui: what is printed (if
\* anything), the dict afterwards, and whether the loop is left
Dispatch(ui, cts) ==
    LET p == parse_input(ui)
        said(t) == [printed |-> TRUE, reply |-> Text(t), contacts |-> cts, leave |-> FALSE]
        handled(o) == [printed |-> TRUE, reply |-> o.result.value,
                       contacts |-> o.contacts, leave |-> FALSE]
    IN  IF p.cmd \in {w_close, w_exit}
        THEN [printed |-> TRUE, reply |-> Text("Good bye!"), contacts |-> cts, leave |-> TRUE]
        ELSE IF p.cmd = <<>>
        THEN [printed |-> FALSE, reply |-> Text(""), contacts |-> cts, leave |-> FALSE]
        ELSE IF p.cmd = w_hello THEN said("How can I help you?")
        ELSE IF p.cmd = w_add THEN handled(add_contact(p.args, cts))
        ELSE IF p.cmd = w_change THEN handled(change_contact(p.args, cts))
        ELSE IF p.cmd = w_phone THEN handled(show_phone(p.args, cts))
        ELSE IF p.cmd = w_all THEN handled(show_all(cts))
        ELSE said("Invalid command.")

\* one turn of the loop: input() returns a line and the line is handled
Command ==
    /\ bot_pc = "prompt"
    /\ \E t \in Typeds :
         LET ui == RenderInput(t)
             d == Dispatch(ui, contacts)
         IN  /\ typed' = t
             /\ user_input' = ui
             /\ before' = contacts
             /\ contacts' = d.contacts
             /\ reply' = IF d.printed THEN d.reply ELSE reply
             /\ bot_pc' = IF d.leave THEN "exited" ELSE "prompt"
             /\ last_set' =
                  IF d.printed /\ d.reply \in {Text("Contact added."), Text("Contact updated.")}
                  THEN [last_set EXCEPT ![t[2]] = t[3]]
                  ELSE last_set
    /\ UNCHANGED <<parseVars, logVars>>

\* input() at the end of standard input raises EOFError, which nothing
\* catches: the traceback is printed and the process ends
EndOfInput ==
    /\ bot_pc = "prompt"
    /\ reply' = [kind |-> "traceback", text |-> "EOFError", data |-> <<>>]
    /\ bot_pc' = "crashed"
    /\ UNCHANGED <<contacts, user_input, typed, before, last_set>>
    /\ UNCHANGED <<parseVars, logVars>>

BotNext == Command \/ EndOfInput

SpecBot == BotInit /\ [][BotNext]_vars

-----------------------------------------------------------------------------
(* Properties of parse_log_line (checked under SpecParse).                 *)

Parsed == result.tag # "none"

FourLevels == {INFO, ERROR, DEBUG, WARNING}

\* the message of the line as written: the words after the third token with
\* the whitespace written between them
GivenMessage == Join(SubSeq(given.toks, 4, Len(given.toks)), given.sepM)

\* C3 as stated: every line whose third token is not one of the four levels,
\* three-token lines included, fails with the unknown-level error.
C3_UnknownLevelAsClaimed ==
    (Parsed /\ Len(given.toks) >= 3 /\ given.toks[3] \notin FourLevels)
        => (result.tag = "raise" /\ result.value.msg = "Unknown log level")

\* C3 amended: a line of at least four tokens whose third token is not one
\* of the four levels fails with the unknown-level error naming that token;
\* a line of fewer than four tokens fails with the format error whatever its
\* third token is.
C3_UnknownLevel ==
    /\ (Parsed /\ Len(given.toks) >= 4 /\ given.toks[3] \notin FourLevels)
          => /\ result.tag = "raise"
             /\ result.value.type = "ValueError"
             /\ result.value.msg = "Unknown log level"
             /\ result.value.arg[1] = given.toks[3]
    /\ (Parsed /\ Len(given.toks) < 4)
          => /\ result.tag = "raise"
             /\ result.value.type = "ValueError"
             /\ result.value.msg = "Invalid log line format"

C3_Witness ==
    /\ Parsed /\ Len(given.toks) >= 5 /\ given.toks[3] = info_lc
    /\ result.tag = "raise" /\ result.value.msg = "Unknown log level"

\* C4: a line D T L M with L one of the four levels parses to the record
\* (D, T, L, M), M keeping the whitespace between its words; every record
\* returned has a level of the fixed set.
C4_WellFormedLine ==
    /\ (Parsed /\ Len(given.toks) >= 4 /\ given.toks[3] \in FourLevels)
          => result = Ok(LogRecord(given.toks[1], given.toks[2], given.toks[3],
                                   GivenMessage))
    /\ (Parsed /\ result.tag = "ok") => result.value.level \in FourLevels

C4_Witness ==
    /\ Parsed /\ result.tag = "ok"
    /\ Len(given.toks) = 5 /\ given.sepM = <<" ", "\t">> /\ given.sepH = <<" ">>
    /\ given.pad.lead # <<>>
    /\ result.value.message = Failed \o <<" ", "\t">> \o INFO

-----------------------------------------------------------------------------
(* Properties of the log tool (checked under SpecLog).                     *)

IsBlank(ln) == \A i \in 1..Len(ln) : ln[i] \in Whitespace

\* the records of the lines that parse, in the order of the lines
RECURSIVE ParsedOf(_)
ParsedOf(lines) ==
    IF lines = <<>> THEN <<>>
    ELSE LET r == parse_log_line(Head(lines))
         IN  (IF ~IsBlank(Head(lines)) /\ r.tag = "ok" THEN <<r.value>> ELSE <<>>)
             \o ParsedOf(Tail(lines))

\* the numbers of the non-blank lines among the first n that do not parse
RECURSIVE FailedLines(_)
FailedLines(n) ==
    IF n = 0 THEN <<>>
    ELSE FailedLines(n - 1)
         \o (IF ~IsBlank(file[n]) /\ parse_log_line(file[n]).tag = "raise"
             THEN <<n>> ELSE <<>>)

Loading == pc = "read"
Loaded == pc \in {"count", "display_counts", "filter", "display_details"}
              \/ (pc = "done" /\ Len(argv) >= 2 /\ fs = "ok")
Counted == Loaded /\ pc # "count"
FilterCalled == pc = "display_details"
                   \/ (pc = "done" /\ Len(argv) >= 3 /\ fs = "ok")

Warnings == SelectSeq(out, LAMBDA e : e.kind = "warning")
Kinds(evs) == [i \in 1..Len(evs) |-> evs[i].kind]
\* what was printed apart from the per-line warnings
Major == Kinds(SelectSeq(out, LAMBDA e : e.kind # "warning"))

\* the level a level argument stands for, <<>> if for none
Canon(lv) ==
    CASE lv \in {error_lc, ERROR} -> ERROR
      [] lv = Warning_mixed       -> WARNING
      [] OTHER                    -> <<>>

\* C1: load_logs returns exactly the records of the lines that parse, in
\* file order; a failing line neither truncates the result nor drops a later
\* valid line.
C1_LoadReturnsParsedLines ==
    /\ Loading => logs = ParsedOf(SubSeq(file, 1, line_no))
    /\ Loaded => (line_no = Len(file) /\ logs = ParsedOf(file))

C1_Witness ==
    /\ pc = "count" /\ Len(file) = 4 /\ Len(logs) = 3
    /\ ~IsBlank(file[2]) /\ parse_log_line(file[2]).tag = "raise"
    /\ logs[2] = parse_log_line(file[3]).value
    /\ logs[3] = parse_log_line(file[4]).value /\ logs[3] # logs[2]

\* C2: every non-blank line that fails to parse gives exactly one warning
\* with its 1-based line number (blank lines counted in the numbering),
\* blank lines give neither warning nor record, and loading goes on: records
\* plus warnings equal the non-blank lines read.
C2_OneWarningPerBadLine ==
    (Loading \/ Loaded) =>
        /\ [i \in 1..Len(Warnings) |-> Warnings[i].data.line_no] = FailedLines(line_no)
        /\ \A i \in 1..Len(Warnings) : Warnings[i].ch = "stderr"
        /\ Len(logs) + Len(Warnings)
              = Cardinality({i \in 1..line_no : ~IsBlank(file[i])})
        /\ Loaded => line_no = Len(file)

C2_Witness ==
    /\ Loaded /\ Len(file) = 4
    /\ IsBlank(file[1]) /\ IsBlank(file[3])
    /\ Len(Warnings) = 1 /\ Warnings[1].data.line_no = 2
    /\ Warnings[1].data.exc.msg = "Unknown log level"
    /\ Len(logs) = 1 /\ logs[1] = parse_log_line(file[4]).value

\* C5: the counts have exactly the four levels as keys, each value is the
\* number of records of that level, and the values add up to the number of
\* records.
C5_CountsByLevel ==
    Counted =>
        /\ DOMAIN counts.value = FourLevels
        /\ \A l \in FourLevels :
              counts.value[l] = Cardinality({i \in 1..Len(logs) : logs[i].level = l})
        /\ counts.value[INFO] + counts.value[ERROR] + counts.value[DEBUG]
              + counts.value[WARNING] = Len(logs)

C5_Witness ==
    /\ Counted /\ Len(logs) = 3
    /\ counts.value[INFO] = 2 /\ counts.value[WARNING] = 1 /\ counts.value[DEBUG] = 0

\* C6: for a level argument that is one of the four levels in any letter
\* case, filter_logs_by_level returns the records of that level in their
\* order (the same for "error" and "ERROR"); for any other argument it
\* fails with the unsupported-level error and returns no list.
C6_FilterByLevel ==
    /\ FilterCalled =>
          IF Canon(argv[3]) # <<>>
          THEN /\ filtered.tag = "ok"
               /\ filtered.value
                     = SelectSeq(logs, LAMBDA rec : rec.level = Canon(argv[3]))
          ELSE /\ filtered.tag = "none"
               /\ pc = "done"
               /\ out[Len(out)].kind = "error"
               /\ out[Len(out)].data.type = "ValueError"
               /\ out[Len(out)].data.msg = "Unsupported level"
    /\ Loaded => /\ filter_logs_by_level(logs, error_lc) = filter_logs_by_level(logs, ERROR)
                 /\ filter_logs_by_level(logs, CRITICAL).tag = "raise"

C6_Witness ==
    /\ FilterCalled /\ argv[3] = error_lc
    /\ Len(logs) = 3 /\ filtered.tag = "ok" /\ Len(filtered.value) = 2
    /\ logs[2].level # ERROR

\* C7: main returns 1 exactly when no path is given, the file is missing or
\* cannot be read, or a level argument is given that is none of the four
\* levels in any letter case; otherwise 0, also with malformed lines and
\* with a level that matches no record; a message on stderr precedes every
\* return of 1.
C7_ExitCode ==
    pc = "done" =>
        /\ exit_code \in {0, 1}
        /\ exit_code = 1 <=>
              \/ Len(argv) < 2
              \/ fs # "ok"
              \/ (Len(argv) >= 3 /\ Canon(argv[3]) = <<>>)
        /\ exit_code = 1 =>
              /\ out # <<>>
              /\ out[Len(out)].ch = "stderr"
              /\ out[Len(out)].kind \in {"usage", "error"}

C7_Witness ==
    /\ pc = "done" /\ exit_code = 0
    /\ Len(Warnings) >= 1
    /\ Len(argv) >= 3 /\ filtered.tag = "ok" /\ filtered.value = <<>>

\* C10: the steps run in the order Load, Count, Render counts, Filter,
\* Render details: the counts table is printed only after a successful
\* load, the details only after the counts table and a successful filter,
\* and the level argument is validated only after the counts table is
\* printed (readable file, unsupported level: counts table, then the error
\* and exit code 1, no details).
C10_StepOrder ==
    /\ Major \in {<<>>, <<"usage">>, <<"error">>, <<"counts">>,
                  <<"counts", "error">>, <<"counts", "details">>}
    /\ \A i \in 1..Len(out) : \A j \in 1..Len(out) :
          (i < j /\ out[j].kind = "warning") => out[i].kind = "warning"
    /\ (Major # <<>> /\ Major[1] = "counts") =>
          /\ Counted /\ ~file_open /\ line_no = Len(file)
          /\ \A i \in 1..Len(out) : out[i].kind = "counts" =>
                \A r \in 1..Len(out[i].data.rows) :
                   out[i].data.rows[r].count = counts.value[out[i].data.rows[r].level]
    /\ Major = <<"counts", "details">> =>
          /\ pc = "done" /\ exit_code = 0 /\ Len(argv) >= 3
          /\ filtered.tag = "ok"
    /\ (pc = "done" /\ Len(argv) >= 2 /\ fs = "ok") =>
          Major = IF Len(argv) < 3 THEN <<"counts">>
                  ELSE IF Canon(argv[3]) = <<>> THEN <<"counts", "error">>
                  ELSE <<"counts", "details">>
    /\ (pc = "done" /\ Len(argv) >= 3 /\ fs = "ok" /\ Canon(argv[3]) = <<>>) =>
          /\ exit_code = 1
          /\ out[Len(out)].data.msg = "Unsupported level"
    /\ (pc = "done" /\ Len(argv) >= 2 /\ fs # "ok") => Major = <<"error">>

C10_Witness ==
    /\ pc = "done" /\ fs = "ok" /\ Len(argv) = 3 /\ argv[3] = CRITICAL
    /\ Major = <<"counts", "error">> /\ exit_code = 1
    /\ Len(logs) >= 1

-----------------------------------------------------------------------------
(* Properties of the assistant bot (checked under SpecBot).                *)

\* the command word and the arguments of the line last typed
TypedCommand == IF typed = <<>> THEN <<>> ELSE Lower(typed[1])
TypedArgs == IF typed = <<>> THEN <<>> ELSE Tail(typed)

NotFound == Text("'Contact not found.'")

\* C8: `phone <name>` replies with the phone of the most recent successful
\* add or change of exactly that name, and with the not-found message if the
\* name was never added; a second add of a name overwrites its phone.
C8_PhoneRepliesLastSet ==
    /\ (bot_pc = "prompt" /\ TypedCommand = w_phone /\ Len(TypedArgs) = 1) =>
          reply = IF last_set[TypedArgs[1]] # <<>>
                  THEN PhoneText(last_set[TypedArgs[1]])
                  ELSE NotFound
    /\ bot_pc # "idle" =>
          \A n \in NamePool :
             /\ Has(contacts, n) <=> last_set[n] # <<>>
             /\ Has(contacts, n) => Get(contacts, n) = last_set[n]

C8_Witness ==
    /\ bot_pc = "prompt" /\ typed = <<w_phone, alice>>
    /\ reply = PhoneText(n999)
    /\ Len(contacts) = 2 /\ contacts[1].name = alice
    /\ Get(contacts, Alice) = n123

\* the line last typed is a command that fails with a user-facing error
WrongCount ==
    \/ TypedCommand \in {w_add, w_change} /\ Len(TypedArgs) # 2
    \/ TypedCommand = w_phone /\ Len(TypedArgs) # 1
AbsentName ==
    \/ TypedCommand = w_change /\ Len(TypedArgs) = 2 /\ ~Has(before, TypedArgs[1])
    \/ TypedCommand = w_phone /\ Len(TypedArgs) = 1 /\ ~Has(before, TypedArgs[1])

\* a failing command is answered in plain text, leaves the contacts as they
\* were, and the loop prompts again
ErrorRepliesLeaveContacts ==
    (bot_pc # "crashed" /\ (WrongCount \/ AbsentName)) =>
        /\ bot_pc = "prompt"
        /\ contacts = before
        /\ reply = IF AbsentName THEN NotFound
                   ELSE IF TypedCommand = w_phone THEN Text("Enter user name.")
                   ELSE Text("Give me name and phone please.")

\* the loop is left only by a line whose first word, lowercased, is exit or close
LoopEndsOnlyOnExit ==
    bot_pc \notin {"prompt", "idle"} => TypedCommand \in {w_exit, w_close}

\* C9 as stated: a failing command gets a plain-text reply, leaves the
\* contacts unchanged and the loop goes on; the loop ends only when the
\* first word of the input, lowercased, is exit or close.
C9_ErrorsAreRepliesAndLoopEndsOnExit ==
    ErrorRepliesLeaveContacts /\ LoopEndsOnlyOnExit

=============================================================================
